---- MODULE Spec2Model ----
(***************************************************************************)
(* Model of tensorrt_llm/models/chatglm: the ChatGLM decoder layer, the    *)
(* decoder stack (ChatGLMModel), the causal-LM wrapper                     *)
(* (ChatGLMForCausalLM) and ZeusTokenizer.build_inputs_with_special_tokens.*)
(*                                                                         *)
(* Tensors are abstracted to scalars of the ring Z_Modulus.  The numeric   *)
(* primitives of the layer library (layer norms, attention, MLP, embedding *)
(* tables) are pairwise distinct non-identity maps on that ring, so that   *)
(* which value was fed to which primitive stays observable.                *)
(* A Python Optional is a set with at most one element; a Python None      *)
(* tensor inside a list is the placeholder NoneTensor.                     *)
(***************************************************************************)
EXTENDS Integers, Sequences, FiniteSets, TLC

\* ---------------------------------------------------------------- bounds
MaxLayers == 2
MaxTokLen == 3
MaxTokenId == 2
MaxPosition == 1

\* ------------------------------------------------------------- constants
Modulus == 997
NoneTensor == 0
MaskTokenId == 9

Min(a, b) == IF a <= b THEN a ELSE b

Add(a, b) == (a + b) % Modulus
Mul(a, b) == (a * b) % Modulus

\* floor of the square root, the integer rendering of x ** 0.5
RECURSIVE SqrtFrom(_, _)
SqrtFrom(x, r) == IF (r + 1) * (r + 1) > x THEN r ELSE SqrtFrom(x, r + 1)
Sqrt(x) == SqrtFrom(x, 0)

\* ------------------------------------------------------ version tags
RecognizedVersions == {"glm", "chatglm", "chatglm2", "chatglm3"}
VersionTags == RecognizedVersions \cup {"other"}

\* --------------------------------------------------- library primitives
\* norm_cls(...)(x): the layer norm owned by a layer (input / post) and ln_f
InputLayernorm(idx, x) == Add(Mul(2, x), 3 + idx)
PostLayernorm(idx, x) == Add(Mul(3, x), 11 + idx)
LnF(x) == Add(Mul(5, x), 1)
\* MLP(...)(x)
Mlp(idx, x) == Add(Mul(7, x), 17 + idx)
\* Attention(...)(hidden_states, use_cache, kv_cache_params, ...):
\* the context output, and with use_cache the updated cache of this layer
AttentionContext(idx, x, kv) == Add(Mul(11, x), Add(23 + idx, kv.past_key_value[1]))
AttentionPresent(idx, x, kv) == Add(Add(Mul(13, x), 101 * (idx + 1)), kv.past_key_value[1])
Attention(idx, x, use_cache, kv) ==
    [pair |-> use_cache,
     context |-> AttentionContext(idx, x, kv),
     presents |-> IF use_cache THEN <<AttentionPresent(idx, x, kv)>> ELSE <<>>]
\* Embedding(...)(ids)
VocabEmbedding(id) == Add(Mul(29, id), 31)
PositionEmbedding(p) == Add(Mul(37, p), 41)
BlockEmbedding(b) == Add(Mul(43, b), 47)

\* ------------------------------------------------------------ Optional
IsNone(opt) == opt = {}
Value(opt) == CHOOSE v \in opt : TRUE

\* config.set_if_not_exist(name, default) on one attribute
SetIfNotExist(opt, default) == IF IsNone(opt) THEN {default} ELSE opt

\* ChatGLMForCausalLM.check_config: fills the defaults, validates nothing
CheckConfig(cfg) ==
    [cfg EXCEPT
        !.chatglm_version = SetIfNotExist(@, "chatglm3"),
        !.apply_residual_connection_post_layernorm = SetIfNotExist(@, FALSE)]

\* the if / elif / elif chain of ChatGLMDecoderLayer.__init__; it has no
\* else, so any other tag leaves the local attention_mask_type unbound
AttentionMaskTypeOf(version) ==
    IF version = "glm" THEN "causal"
    ELSE IF version = "chatglm" THEN "bidirectional"
    ELSE IF version \in {"chatglm2", "chatglm3"} THEN "causal"
    ELSE "unbound"

\* self.alpha = (2 * config.num_hidden_layers) ** 0.5
Alpha(num_hidden_layers) == Sqrt(2 * num_hidden_layers)

\* ChatGLMDecoderLayer.__init__: reading the unbound local when the
\* Attention block is built raises UnboundLocalError
DecoderLayerInit(cfg, idx) ==
    LET version == Value(cfg.chatglm_version)
        mask == AttentionMaskTypeOf(version)
    IN [raised |-> IF mask = "unbound" THEN "UnboundLocalError" ELSE "",
        layer_idx |-> idx,
        chatglm_version |-> version,
        apply_residual_connection_post_layernorm |->
            Value(cfg.apply_residual_connection_post_layernorm),
        alpha |-> Alpha(cfg.num_hidden_layers),
        attention_mask_type |-> mask]

\* ChatGLMModel.__init__: the two position tables exist for 'glm' only;
\* one decoder layer per index in range(num_hidden_layers)
ModelInit(cfg) ==
    LET layers == [k \in 1..cfg.num_hidden_layers |-> DecoderLayerInit(cfg, k - 1)]
        failed == {k \in 1..cfg.num_hidden_layers : layers[k].raised # ""}
    IN [raised |-> IF failed = {} THEN "" ELSE "UnboundLocalError",
        chatglm_version |-> Value(cfg.chatglm_version),
        has_position_embedding |-> Value(cfg.chatglm_version) = "glm",
        layers |-> layers]

\* ---------------------------------------------------- decoder layer call
\* the two residual combinations of ChatGLMDecoderLayer.forward
ScaledResidual_NoScale(residual, alpha, branch) == Add(residual, branch)
ScaledResidual(residual, alpha, branch) == Add(Mul(residual, alpha), branch)
PlainResidual(residual, branch) == Add(residual, branch)

\* residual of the attention combination when the version is not 'chatglm'
AttentionResidual(post_layernorm, hidden_states, norm_output) ==
    IF post_layernorm THEN norm_output ELSE hidden_states

\* residual of the feed-forward combination when the version is not 'chatglm'
FfnResidual_AlwaysNormalized(post_layernorm, norm_input, norm_output) == norm_output
FfnResidual(post_layernorm, norm_input, norm_output) ==
    IF post_layernorm THEN norm_output ELSE norm_input

\* ChatGLMDecoderLayer.forward; the record keeps the intermediate tensors
DecoderLayerForward(layer, hidden_states, use_cache, kv) ==
    LET idx == layer.layer_idx
        norm_output == InputLayernorm(idx, hidden_states)
        attn == Attention(idx, norm_output, use_cache, kv)
        attention_output == attn.context
        post == layer.apply_residual_connection_post_layernorm
        norm_input ==
            IF layer.chatglm_version = "chatglm"
            THEN ScaledResidual(norm_output, layer.alpha, attention_output)
            ELSE PlainResidual(AttentionResidual(post, hidden_states, norm_output),
                               attention_output)
        norm_output2 == PostLayernorm(idx, norm_input)
        mlp_output == Mlp(idx, norm_output2)
        output ==
            IF layer.chatglm_version = "chatglm"
            THEN ScaledResidual(norm_output2, layer.alpha, mlp_output)
            ELSE PlainResidual(FfnResidual(post, norm_input, norm_output2),
                               mlp_output)
    IN [pair |-> use_cache,
        norm_output |-> norm_output,
        attention_output |-> attention_output,
        norm_input |-> norm_input,
        post_norm_output |-> norm_output2,
        mlp_output |-> mlp_output,
        output |-> output,
        presents |-> attn.presents]

\* ------------------------------------------------- KeyValueCacheParams
PerLayerFields == {"past_key_value", "kv_cache_block_pointers",
                   "host_kv_cache_block_pointers", "host_max_attention_window_sizes"}
SharedFields == {"host_past_key_value_lengths", "host_sink_token_length",
                 "cache_indirection"}

\* PadTo(list, size): list extended with None placeholders up to size
PadTo(list, size) ==
    [k \in 1..(IF Len(list) >= size THEN Len(list) ELSE size) |->
        IF k <= Len(list) THEN list[k] ELSE NoneTensor]

\* a per-layer list that is present but shorter than the layer count
Undersized(kvp, size) ==
    \E f \in PerLayerFields : ~IsNone(kvp[f]) /\ Len(Value(kvp[f])) < size

\* KeyValueCacheParams.fill_none_tensor_list(list_size): an absent list
\* becomes list_size placeholders; every list has at least list_size entries
FillNoneTensorList(kvp, size) ==
    [f \in DOMAIN kvp |->
        IF f \in PerLayerFields
        THEN IF IsNone(kvp[f]) THEN {PadTo(<<>>, size)} ELSE {PadTo(Value(kvp[f]), size)}
        ELSE kvp[f]]

\* --------------------------------------------------- ChatGLMModel.forward
\* position_ids in the packed layout [2, tokens] or the padded layout
\* [batch, 2, seq]; batch = tokens = seq = 1
PositionIdsTensor(p, b, remove_input_padding) ==
    IF remove_input_padding THEN <<<<p>>, <<b>>>> ELSE << <<<<p>>, <<b>>>> >>

\* position_ids.split(1, dim=0) or position_ids.split(1, dim=1), flattened
\* to the index each chunk holds
SplitPositionIds(position_ids, remove_input_padding) ==
    IF remove_input_padding
    THEN [k \in 1..Len(position_ids) |-> position_ids[k][1]]
    ELSE [k \in 1..Len(position_ids[1]) |-> position_ids[1][k][1]]

\* the tag tested before the position tables are looked up
UsesPositionTables_AllLegacy(version) == version \in {"glm", "chatglm"}
UsesPositionTables(version) == version = "glm"

\* position_embedding(position_ids_list[0]) + block_embedding(position_ids_list[1])
EmbedPositions(position_ids_list) ==
    Add(PositionEmbedding(position_ids_list[1]), BlockEmbedding(position_ids_list[2]))

\* hidden state after the embedding stage
EmbedStage(version, input_ids, position_ids, remove_input_padding) ==
    IF UsesPositionTables(version)
    THEN Add(VocabEmbedding(input_ids),
             EmbedPositions(SplitPositionIds(position_ids, remove_input_padding)))
    ELSE VocabEmbedding(input_ids)

\* the size handed to fill_none_tensor_list: len(self.layers)
FillSize_OneShort(layers) == IF Len(layers) = 0 THEN 0 ELSE Len(layers) - 1
FillSize(layers) == Len(layers)

\* number of iterations of the zip over the layers and the four lists
ZipLen(layers, kvp) ==
    Min(Len(layers),
        Min(Min(Len(Value(kvp.past_key_value)),
                Len(Value(kvp.kv_cache_block_pointers))),
            Min(Len(Value(kvp.host_kv_cache_block_pointers)),
                Len(Value(kvp.host_max_attention_window_sizes)))))

LayerDescriptor_WholeLists(kvp, k) ==
    [past_key_value |-> <<Value(kvp.past_key_value)[k]>>,
     kv_cache_block_pointers |-> Value(kvp.kv_cache_block_pointers),
     host_kv_cache_block_pointers |-> Value(kvp.host_kv_cache_block_pointers),
     host_past_key_value_lengths |-> kvp.host_past_key_value_lengths,
     host_max_attention_window_sizes |-> Value(kvp.host_max_attention_window_sizes)[k],
     host_sink_token_length |-> kvp.host_sink_token_length,
     cache_indirection |-> kvp.cache_indirection]

\* the KeyValueCacheParams built for the k-th iteration of the zip
LayerDescriptor(kvp, k) ==
    [past_key_value |-> <<Value(kvp.past_key_value)[k]>>,
     kv_cache_block_pointers |-> <<Value(kvp.kv_cache_block_pointers)[k]>>,
     host_kv_cache_block_pointers |-> <<Value(kvp.host_kv_cache_block_pointers)[k]>>,
     host_past_key_value_lengths |-> kvp.host_past_key_value_lengths,
     host_max_attention_window_sizes |-> Value(kvp.host_max_attention_window_sizes)[k],
     host_sink_token_length |-> kvp.host_sink_token_length,
     cache_indirection |-> kvp.cache_indirection]

\* layer_output[0] replaces hidden_states inside `if use_cache:` only
NextHidden(use_cache, hidden_states, layer_output) ==
    IF use_cache THEN layer_output.output ELSE hidden_states

NextPresents_Prepend(use_cache, presents, layer_output) ==
    IF use_cache
    THEN [presents EXCEPT !.items = <<layer_output.presents[1]>> \o @]
    ELSE presents

\* presents.append(layer_output[1]) inside `if use_cache:`
NextPresents(use_cache, presents, layer_output) ==
    IF use_cache
    THEN [presents EXCEPT !.items = Append(@, layer_output.presents[1])]
    ELSE presents

\* ---------------------------------------------- ChatGLMForCausalLM
PositionEncoding2D_ChatglmOnly(version) == version = "chatglm"
PositionEncoding2D(version) == version \in {"chatglm", "glm"}

\* ------------------------------------------------------ ZeusTokenizer
\* build_inputs_with_special_tokens: the module never binds `logger`, so
\* the warning branch raises NameError before the return statement
BuildInputsWithSpecialTokens(token_ids_0, token_ids_1) ==
    IF ~IsNone(token_ids_1)
    THEN [raised |-> "NameError", result |-> <<>>]
    ELSE [raised |-> "", result |-> token_ids_0 \o <<MaskTokenId>>]

VARIABLES built, error, config, transformer,
          fpc, args, kv_entry, kv_cache_params, hidden_states, presents,
          calls, ln_f_input, ret, raised, prep, tok

ctor_vars == <<built, error, config, transformer>>
fwd_vars == <<fpc, args, kv_entry, kv_cache_params, hidden_states, presents,
              calls, ln_f_input, ret, raised>>
vars == <<ctor_vars, fwd_vars, prep, tok>>

ConfigInputs ==
    [chatglm_version : {{}} \cup {{v} : v \in VersionTags},
     apply_residual_connection_post_layernorm : {{}, {TRUE}, {FALSE}},
     num_hidden_layers : 0..MaxLayers]

\* the entries the caller put in a per-layer list of the given length
Items(base, n) == [k \in 1..n |-> base + k]

\* a per-layer list as the caller may pass it: absent, one entry short, one
\* entry per layer, or (when longest > layer_count) with entries to spare
ListInputs(base, layer_count, longest) ==
    {{}} \cup {{Items(base, n)} : n \in {m \in 0..longest : m >= layer_count - 1}}

\* the descriptors a caller may pass; kv_cache_params = None is {}
DescriptorInputs(layer_count) ==
    {{}} \cup
    {{d} : d \in
        [past_key_value : ListInputs(200, layer_count, layer_count + 1),
         kv_cache_block_pointers : ListInputs(300, layer_count, layer_count),
         host_kv_cache_block_pointers : ListInputs(400, layer_count, layer_count),
         host_max_attention_window_sizes : ListInputs(500, layer_count, layer_count),
         host_past_key_value_lengths : {61},
         host_sink_token_length : {62},
         cache_indirection : {63}]}

ArgInputs ==
    [input_ids : {1, 2}, p : 0..MaxPosition, b : {0, 1},
     remove_input_padding : BOOLEAN, use_cache : BOOLEAN]

NoArgs == [input_ids |-> 0, p |-> 0, b |-> 0,
           remove_input_padding |-> FALSE, use_cache |-> FALSE]
NoPresents == [created |-> FALSE, items |-> <<>>]
NoRet == [pair |-> FALSE, hidden_states |-> 0, presents |-> <<>>]
NoPrep == [called |-> FALSE, raised |-> "", kwarg_given |-> FALSE,
           position_encoding_2d |-> FALSE]

TokenLists ==
    UNION {[1..n -> 1..MaxTokenId] : n \in 0..MaxTokLen}

NoTok == [called |-> FALSE, token_ids_0 |-> <<>>, token_ids_1 |-> {},
          raised |-> "", result |-> <<>>]

Init ==
    /\ built = "none"
    /\ error = ""
    /\ config = [chatglm_version |-> {}, apply_residual_connection_post_layernorm |-> {},
                 num_hidden_layers |-> 0]
    /\ transformer = [chatglm_version |-> "", has_position_embedding |-> FALSE, layers |-> <<>>]
    /\ fpc = "idle"
    /\ args = NoArgs
    /\ kv_entry = {}
    /\ kv_cache_params = {}
    /\ hidden_states = 0
    /\ presents = NoPresents
    /\ calls = <<>>
    /\ ln_f_input = 0
    /\ ret = NoRet
    /\ raised = ""
    /\ prep = NoPrep
    /\ tok = NoTok

\* ChatGLMForCausalLM.__init__: check_config, then ChatGLMModel(config)
Construct ==
    /\ built = "none"
    /\ \E cfg \in ConfigInputs :
        LET checked == CheckConfig(cfg)
            m == ModelInit(checked)
        IN /\ config' = checked
           /\ IF m.raised # ""
              THEN /\ built' = "error"
                   /\ error' = m.raised
                   /\ UNCHANGED transformer
              ELSE /\ built' = "ok"
                   /\ error' = ""
                   /\ transformer' = [chatglm_version |-> m.chatglm_version,
                                      has_position_embedding |-> m.has_position_embedding,
                                      layers |-> m.layers]
    /\ UNCHANGED <<fwd_vars, prep, tok>>

\* ChatGLMForCausalLM.prepare_inputs(*args, **kwargs): a caller who passes
\* position_encoding_2d itself gets a TypeError for the duplicate keyword
PrepareInputs ==
    /\ built = "ok"
    /\ ~prep.called
    /\ \E kwarg_given \in BOOLEAN :
        prep' = [called |-> TRUE,
                 raised |-> IF kwarg_given THEN "TypeError" ELSE "",
                 kwarg_given |-> kwarg_given,
                 position_encoding_2d |->
                     PositionEncoding2D(transformer.chatglm_version)]
    /\ UNCHANGED <<ctor_vars, fwd_vars, tok>>

\* ChatGLMModel.forward up to the layer loop: embedding stage,
\* fill_none_tensor_list, presents = []
ForwardStart ==
    /\ built = "ok"
    /\ fpc = "idle"
    /\ \E a \in ArgInputs, d \in DescriptorInputs(Len(transformer.layers)),
          on_undersized \in {"fill", "raise"} :
        /\ args' = a
        /\ kv_entry' = d
        /\ hidden_states' =
              EmbedStage(transformer.chatglm_version, a.input_ids,
                         PositionIdsTensor(a.p, a.b, a.remove_input_padding),
                         a.remove_input_padding)
        /\ calls' = <<>>
        /\ UNCHANGED <<ln_f_input, ret>>
        /\ IF IsNone(d)
           THEN /\ fpc' = "raised"
                /\ raised' = "AttributeError"
                /\ kv_cache_params' = d
                /\ UNCHANGED presents
           ELSE IF Undersized(Value(d), FillSize(transformer.layers))
                   /\ on_undersized = "raise"
           THEN /\ fpc' = "raised"
                /\ raised' = "ConfigurationError"
                /\ kv_cache_params' = d
                /\ UNCHANGED presents
           ELSE /\ fpc' = "loop"
                /\ raised' = ""
                /\ kv_cache_params' =
                      {FillNoneTensorList(Value(d), FillSize(transformer.layers))}
                /\ presents' = [created |-> a.use_cache, items |-> <<>>]
    /\ UNCHANGED <<ctor_vars, prep, tok>>

\* one iteration of the layer loop of ChatGLMModel.forward
LayerStep ==
    /\ fpc = "loop"
    /\ Len(calls) < ZipLen(transformer.layers, Value(kv_cache_params))
    /\ LET k == Len(calls) + 1
           layer == transformer.layers[k]
           kv == LayerDescriptor(Value(kv_cache_params), k)
           layer_output == DecoderLayerForward(layer, hidden_states, args.use_cache, kv)
       IN /\ calls' = Append(calls, [layer_idx |-> layer.layer_idx,
                                     attention_mask_type |-> layer.attention_mask_type,
                                     hidden_in |-> hidden_states,
                                     kv |-> kv,
                                     out |-> layer_output])
          /\ hidden_states' = NextHidden(args.use_cache, hidden_states, layer_output)
          /\ presents' = NextPresents(args.use_cache, presents, layer_output)
    /\ UNCHANGED <<ctor_vars, prep, tok, fpc, args, kv_entry, kv_cache_params,
                   ln_f_input, ret, raised>>

\* ChatGLMModel.forward after the loop: ln_f and the return value
ForwardFinish ==
    /\ fpc = "loop"
    /\ Len(calls) = ZipLen(transformer.layers, Value(kv_cache_params))
    /\ ln_f_input' = hidden_states
    /\ hidden_states' = LnF(hidden_states)
    /\ ret' = [pair |-> args.use_cache,
               hidden_states |-> LnF(hidden_states),
               presents |-> IF args.use_cache THEN presents.items ELSE <<>>]
    /\ fpc' = "done"
    /\ UNCHANGED <<ctor_vars, prep, tok, args, kv_entry, kv_cache_params, presents,
                   calls, raised>>

\* a call of ZeusTokenizer.build_inputs_with_special_tokens
BuildInputs ==
    /\ \E t0 \in TokenLists, t1 \in {{}} \cup {{t} : t \in TokenLists} :
        LET r == BuildInputsWithSpecialTokens(t0, t1)
        IN tok' = [called |-> TRUE, token_ids_0 |-> t0, token_ids_1 |-> t1,
                   raised |-> r.raised, result |-> r.result]
    /\ UNCHANGED <<ctor_vars, fwd_vars, prep>>

Next ==
    \/ Construct
    \/ PrepareInputs
    \/ ForwardStart
    \/ LayerStep
    \/ ForwardFinish

Spec == Init /\ [][Next]_vars

TokNext == BuildInputs

TokSpec == Init /\ [][TokNext]_vars

\* ======================================================== properties
LayerCount == Len(transformer.layers)
Version == transformer.chatglm_version
TokenEmbedding == VocabEmbedding(args.input_ids)
InLoopOrDone == fpc \in {"loop", "done"}

\* C1: for N >= 2 and either value of use_cache, layer 0 receives the
\* embedding output, layer i+1 receives the hidden-state output of layer i,
\* and ln_f receives the output of the last layer.
C1_LayerChaining ==
    LayerCount >= 2 =>
        /\ \A k \in 1..Len(calls) :
              calls[k].hidden_in =
                  IF k = 1
                  THEN EmbedStage(Version, args.input_ids,
                                  PositionIdsTensor(args.p, args.b, args.remove_input_padding),
                                  args.remove_input_padding)
                  ELSE calls[k - 1].out.output
        /\ (fpc = "done" /\ Len(calls) >= 1) =>
              ln_f_input = calls[Len(calls)].out.output

\* C2: a configuration whose version tag is not one of the four recognized
\* tags never yields a constructed model, whatever the layer count:
\* construction ends in an error.
C2_UnrecognizedVersionRejected ==
    (built # "none" /\ Value(config.chatglm_version) \notin RecognizedVersions)
        => (built = "error" /\ error # "")

\* C3: when a per-layer list of the caller's descriptor is absent or shorter
\* than the layer count, a forward call that returns has invoked all N
\* layers in order, each with its own descriptor whose missing entries are
\* the None placeholder; otherwise the call raised.
EntryItem(f, k) ==
    IF IsNone(Value(kv_entry)[f]) \/ Len(Value(Value(kv_entry)[f])) < k
    THEN NoneTensor
    ELSE Value(Value(kv_entry)[f])[k]
SomeListShort ==
    /\ ~IsNone(kv_entry)
    /\ \E f \in PerLayerFields :
          IsNone(Value(kv_entry)[f]) \/ Len(Value(Value(kv_entry)[f])) < LayerCount
C3_AllLayersOrError ==
    (fpc = "done" /\ SomeListShort) =>
        /\ Len(calls) = LayerCount
        /\ \A k \in 1..Len(calls) :
              /\ calls[k].layer_idx = k - 1
              /\ calls[k].kv.past_key_value = <<EntryItem("past_key_value", k)>>
              /\ calls[k].kv.kv_cache_block_pointers =
                    <<EntryItem("kv_cache_block_pointers", k)>>
              /\ calls[k].kv.host_kv_cache_block_pointers =
                    <<EntryItem("host_kv_cache_block_pointers", k)>>
              /\ calls[k].kv.host_max_attention_window_sizes =
                    EntryItem("host_max_attention_window_sizes", k)
C3_Witness ==
    /\ fpc = "done"
    /\ LayerCount >= 2
    /\ Len(calls) = LayerCount
    /\ ~IsNone(kv_entry)
    /\ IsNone(Value(kv_entry).past_key_value)
    /\ ~IsNone(Value(kv_entry).kv_cache_block_pointers)
    /\ Len(Value(Value(kv_entry).kv_cache_block_pointers)) < LayerCount

\* C4: prepare_inputs hands position_encoding_2d = TRUE to the base input
\* preparation exactly for the tags 'chatglm' and 'glm', FALSE for
\* 'chatglm2' and 'chatglm3', whatever the arguments of the call.
C4_PositionEncoding2D ==
    prep.called =>
        /\ Version \in {"chatglm", "glm"} => prep.position_encoding_2d = TRUE
        /\ Version \in {"chatglm2", "chatglm3"} => prep.position_encoding_2d = FALSE
C4_Witness ==
    /\ prep.called
    /\ Version = "glm"
    /\ prep.position_encoding_2d = TRUE
    /\ prep.raised = ""

\* C5: a layer of version 'chatglm' has a bidirectional mask and combines
\* both residuals as residual * alpha + branch, with alpha the square root of
\* 2 * num_hidden_layers and the residual the normalized value; a layer of
\* 'glm', 'chatglm2' or 'chatglm3' has a causal mask and adds without scale.
IsAlpha(a, n) == a * a <= 2 * n /\ 2 * n < (a + 1) * (a + 1)
C5_ResidualBehaviourByVersion ==
    \A k \in 1..Len(calls) :
        LET c == calls[k]
            o == c.out
            layer == transformer.layers[k]
        IN /\ layer.chatglm_version = Version
           /\ Version \in RecognizedVersions
           /\ o.norm_output = InputLayernorm(c.layer_idx, c.hidden_in)
           /\ o.attention_output = AttentionContext(c.layer_idx, o.norm_output, c.kv)
           /\ o.post_norm_output = PostLayernorm(c.layer_idx, o.norm_input)
           /\ o.mlp_output = Mlp(c.layer_idx, o.post_norm_output)
           /\ IF Version = "chatglm"
              THEN /\ c.attention_mask_type = "bidirectional"
                   /\ IsAlpha(layer.alpha, config.num_hidden_layers)
                   /\ o.norm_input =
                         (o.norm_output * layer.alpha + o.attention_output) % Modulus
                   /\ o.output =
                         (o.post_norm_output * layer.alpha + o.mlp_output) % Modulus
              ELSE /\ c.attention_mask_type = "causal"
                   /\ o.norm_input \in
                         {(o.norm_output + o.attention_output) % Modulus,
                          (c.hidden_in + o.attention_output) % Modulus}
                   /\ o.output \in
                         {(o.post_norm_output + o.mlp_output) % Modulus,
                          (o.norm_input + o.mlp_output) % Modulus}
C5_Witness ==
    /\ Version = "chatglm"
    /\ LayerCount = 2
    /\ Len(calls) = 2
    /\ transformer.layers[2].alpha = 2

\* C6: in a layer of a version other than 'chatglm' both residual
\* combinations are plain additions; with
\* apply_residual_connection_post_layernorm the residual is the normalized
\* value (input_layernorm output, then post_layernorm output), without it the
\* un-normalized one (the layer input, then the attention combination's sum).
C6_ConfigurableResidual ==
    \A k \in 1..Len(calls) :
        LET c == calls[k]
            o == c.out
            post == Value(config.apply_residual_connection_post_layernorm)
        IN Version # "chatglm" =>
              /\ o.norm_output = InputLayernorm(c.layer_idx, c.hidden_in)
              /\ o.norm_input =
                    ((IF post THEN o.norm_output ELSE c.hidden_in)
                        + AttentionContext(c.layer_idx, o.norm_output, c.kv)) % Modulus
              /\ o.post_norm_output = PostLayernorm(c.layer_idx, o.norm_input)
              /\ o.output =
                    ((IF post THEN o.post_norm_output ELSE o.norm_input)
                        + Mlp(c.layer_idx, o.post_norm_output)) % Modulus
C6_Witness ==
    /\ Version = "chatglm2"
    /\ Value(config.apply_residual_connection_post_layernorm) = TRUE
    /\ Len(calls) >= 2
    /\ fpc = "done"

\* C7: with use_cache the stack returns the pair (hidden_states, presents),
\* presents holding one entry per decoder layer, entry i the updated cache
\* layer i returned; without use_cache it returns the hidden states alone
\* and creates no cache collection.  A decoder layer returns a pair exactly
\* when use_cache is set.
C7_ReturnShape ==
    /\ \A k \in 1..Len(calls) :
          /\ calls[k].out.pair = args.use_cache
          /\ Len(calls[k].out.presents) = IF args.use_cache THEN 1 ELSE 0
    /\ InLoopOrDone => presents.created = args.use_cache
    /\ fpc = "done" =>
          IF args.use_cache
          THEN /\ ret.pair
               /\ ret.hidden_states = LnF(ln_f_input)
               /\ Len(ret.presents) = LayerCount
               /\ \A k \in 1..LayerCount :
                     /\ calls[k].layer_idx = k - 1
                     /\ ret.presents[k] = calls[k].out.presents[1]
                     /\ ret.presents[k] =
                           AttentionPresent(k - 1, calls[k].out.norm_output, calls[k].kv)
          ELSE /\ ~ret.pair
               /\ ret.hidden_states = LnF(ln_f_input)
               /\ ret.presents = <<>>
               /\ presents.items = <<>>
C7_Witness ==
    /\ fpc = "done"
    /\ args.use_cache
    /\ LayerCount >= 2
    /\ Len(ret.presents) = LayerCount
    /\ ret.presents[1] # ret.presents[2]

\* C8: build_inputs_with_special_tokens returns token_ids_0 followed by one
\* mask-token id for every token_ids_0 and every token_ids_1; a second input
\* is ignored and the call does not fail.
C8_BuildInputsTotal ==
    tok.called =>
        /\ tok.raised = ""
        /\ tok.result = Append(tok.token_ids_0, MaskTokenId)

\* C9: the descriptor of layer i holds element i of each per-layer list and
\* the shared fields as they are; after the initial normalization the
\* caller's descriptor keeps the caller's entries and shared fields, and the
\* per-layer lists keep their length through the loop.
NormalLen(f) ==
    IF IsNone(Value(kv_entry)[f]) \/ Len(Value(Value(kv_entry)[f])) < LayerCount
    THEN LayerCount
    ELSE Len(Value(Value(kv_entry)[f]))
C9_DescriptorThreading ==
    InLoopOrDone =>
        LET d == Value(kv_cache_params)
            e == Value(kv_entry)
        IN /\ \A f \in SharedFields : d[f] = e[f]
           /\ \A f \in PerLayerFields :
                 /\ ~IsNone(d[f])
                 /\ Len(Value(d[f])) = NormalLen(f)
                 /\ \A k \in 1..Len(Value(d[f])) : Value(d[f])[k] = EntryItem(f, k)
           /\ \A k \in 1..Len(calls) :
                 /\ calls[k].kv.past_key_value = <<Value(d.past_key_value)[k]>>
                 /\ calls[k].kv.kv_cache_block_pointers =
                       <<Value(d.kv_cache_block_pointers)[k]>>
                 /\ calls[k].kv.host_kv_cache_block_pointers =
                       <<Value(d.host_kv_cache_block_pointers)[k]>>
                 /\ calls[k].kv.host_max_attention_window_sizes =
                       Value(d.host_max_attention_window_sizes)[k]
                 /\ \A f \in SharedFields : calls[k].kv[f] = e[f]
C9_Witness ==
    /\ fpc = "done"
    /\ Len(calls) >= 2
    /\ ~IsNone(Value(kv_entry).kv_cache_block_pointers)
    /\ calls[2].kv.kv_cache_block_pointers = <<302>>
    /\ calls[1].kv.kv_cache_block_pointers = <<301>>

\* C10 as stated: the stack adds embed_position(p) + embed_block(b) to the
\* token embedding exactly when prepare_inputs reports 2D positions.
PositionSum == Add(PositionEmbedding(args.p), BlockEmbedding(args.b))
C10_Original ==
    Len(calls) >= 1 =>
        calls[1].hidden_in =
            IF PositionEncoding2D(Version)
            THEN Add(TokenEmbedding, PositionSum)
            ELSE TokenEmbedding

\* C10 amended: the stack splits the position input in two and adds
\* embed_position(p) + embed_block(b) exactly for the tag 'glm', a tag
\* prepare_inputs reports as 2D; for 'chatglm' (also reported 2D) and for
\* the tags reported 1D layer 0 receives the token embedding alone.
C10_PositionTablesOnlyForGlm ==
    /\ Len(calls) >= 1 =>
          /\ calls[1].hidden_in =
                IF Version = "glm"
                THEN Add(TokenEmbedding, PositionSum)
                ELSE TokenEmbedding
          /\ Version = "glm" =>
                /\ PositionEncoding2D(Version)
                /\ Len(SplitPositionIds(
                          PositionIdsTensor(args.p, args.b, args.remove_input_padding),
                          args.remove_input_padding)) = 2
                /\ transformer.has_position_embedding
          /\ ~PositionEncoding2D(Version) => calls[1].hidden_in = TokenEmbedding
    /\ (prep.called /\ Len(calls) >= 1 /\ calls[1].hidden_in # TokenEmbedding)
          => prep.position_encoding_2d
C10_Witness ==
    /\ Len(calls) >= 1
    /\ Version = "chatglm"
    /\ prep.called
    /\ prep.position_encoding_2d
    /\ calls[1].hidden_in = TokenEmbedding
====
